---- MODULE Spec2Model ----
(***************************************************************************)
(* The two scripts of chutes-search: scripts/probe_searxng.py (the         *)
(* instance prober) and send_notifications.py (the notifier).  A run is    *)
(* one of the two programs; prog says which.                               *)
(***************************************************************************)
EXTENDS Integers, Sequences, FiniteSets, TLC

\* ------------------------------------------------------------------ bounds
MaxFileLen == 5     \* characters in the URL list file
MaxResults == 1     \* length of a "results" list in a response body
MaxEnvLen  == 2     \* characters in an environment variable's value

\* ------------------------------------------------------- program constants
HTTP_OK == 200

\* --------------------------------------------------------------- inputs
NL == "\n"
Chars      == {"a", "/", " ", NL}
Whitespace == {" ", NL}

SeqsUpTo(S, n) == UNION {[1..k -> S] : k \in 0..n}

Files == SeqsUpTo(Chars, MaxFileLen)

\* A JSON value found under the "results" key (or the key missing).
ResultsValues ==
    {[t |-> "missing", n |-> 0], [t |-> "null", n |-> 0], [t |-> "str", n |-> 2]}
    \cup {[t |-> "list", n |-> k] : k \in 0..MaxResults}

\* A response body: text that does not parse, a top-level JSON array, or a
\* JSON object.
Bodies ==
    {[t |-> "garbage", res |-> [t |-> "missing", n |-> 0]],
     [t |-> "array",   res |-> [t |-> "missing", n |-> 0]]}
    \cup {[t |-> "object", res |-> v] : v \in ResultsValues}

GoodBody == [t |-> "object", res |-> [t |-> "list", n |-> MaxResults]]

\* What urlopen does for one request: it raises, or it returns a response.
Outcomes ==
    {[kind |-> "raise", status |-> 0, body |-> GoodBody, err |-> "timed out"]}
    \cup {[kind |-> "resp", status |-> HTTP_OK, body |-> b, err |-> ""] : b \in Bodies}
    \cup {[kind |-> "resp", status |-> 204, body |-> GoodBody, err |-> ""]}

\* ------------------------------------------------ prober: pure functions
RECURSIVE lstrip(_, _)
lstrip(s, cs) ==
    IF s = <<>> THEN s
    ELSE IF Head(s) \in cs THEN lstrip(Tail(s), cs) ELSE s

RECURSIVE rstrip(_, _)
rstrip(s, cs) ==
    IF s = <<>> THEN s
    ELSE IF s[Len(s)] \in cs THEN rstrip(SubSeq(s, 1, Len(s) - 1), cs) ELSE s

strip(s) == rstrip(lstrip(s, Whitespace), Whitespace)

\* url = line.strip().rstrip('/')
normalize(line) == rstrip(strip(line), {"/"})

\* for line in f: the lines of the file, each with its newline.
RECURSIVE readlines(_)
readlines(s) ==
    IF s = <<>> THEN <<>>
    ELSE LET nls == {i \in 1..Len(s) : s[i] = NL}
         IN IF nls = {} THEN <<s>>
            ELSE LET k == CHOOSE i \in nls : \A j \in nls : i <= j
                 IN <<SubSeq(s, 1, k)>> \o readlines(SubSeq(s, k + 1, Len(s)))

None == [t |-> "none", res |-> [t |-> "missing", n |-> 0]]

\* fetch_json: [raised, err, data]; data is None or the parsed body.
fetch_json(o) ==
    IF o.kind = "raise" THEN [raised |-> TRUE, err |-> o.err, data |-> None]
    ELSE IF o.status # HTTP_OK THEN [raised |-> FALSE, err |-> "", data |-> None]
    ELSE IF o.body.t = "garbage" THEN [raised |-> FALSE, err |-> "", data |-> None]
    ELSE [raised |-> FALSE, err |-> "", data |-> o.body]

isdict(data) == data.t = "object"

\* Mutant of okOf: ok = isinstance(data, dict) and data.get('results') is not None
okOf_AnyResults(data) == isdict(data) /\ data.res.t \notin {"missing", "null"}

\* ok = isinstance(data, dict) and isinstance(data.get('results'), list)
okOf(data) == isdict(data) /\ data.res.t = "list"

\* len(data.get('results', [])) if isinstance(data, dict) else 0
\* [raised, n]: len() of None raises TypeError.
countOf(data) ==
    IF ~isdict(data) THEN [raised |-> FALSE, n |-> 0]
    ELSE IF data.res.t = "missing" THEN [raised |-> FALSE, n |-> 0]
    ELSE IF data.res.t = "null" THEN [raised |-> TRUE, n |-> 0]
    ELSE [raised |-> FALSE, n |-> data.res.n]

ErrorRecord(url_, e) ==
    [type |-> "record", url |-> url_, ok |-> FALSE, key |-> "error", count |-> 0, error |-> e]

CountRecord(url_, ok_, n) ==
    [type |-> "record", url |-> url_, ok |-> ok_, key |-> "count", count |-> n, error |-> ""]

\* Mutant of recordOf: the except branch prints a count of 0 and no error.
recordOf_ErrorAsCount(url_, o) ==
    LET r == fetch_json(o) IN
    IF r.raised THEN CountRecord(url_, FALSE, 0)
    ELSE IF countOf(r.data).raised THEN ErrorRecord(url_, "TypeError")
    ELSE CountRecord(url_, okOf(r.data), countOf(r.data).n)

\* The JSON line printed for one URL (the ms field, a clock reading, is left out).
recordOf(url_, o) ==
    LET r == fetch_json(o) IN
    IF r.raised THEN ErrorRecord(url_, r.err)
    ELSE IF countOf(r.data).raised THEN ErrorRecord(url_, "TypeError")
    ELSE CountRecord(url_, okOf(r.data), countOf(r.data).n)

\* Mutant of appended: working.append(url), the slash forgotten.
appended_NoSlash(work, rec) ==
    IF rec.key = "count" /\ rec.ok THEN Append(work, rec.url) ELSE work

\* if ok: working.append(url + '/')   (only on the path that printed a count)
appended(work, rec) ==
    IF rec.key = "count" /\ rec.ok THEN Append(work, rec.url \o <<"/">>) ELSE work

\* ','.join(working)
RECURSIVE join(_)
join(ws) ==
    IF ws = <<>> THEN <<>>
    ELSE IF Len(ws) = 1 THEN ws[1]
    ELSE ws[1] \o <<",">> \o join(Tail(ws))

CsvLine(text) ==
    [type |-> "csv", url |-> text, ok |-> FALSE, key |-> "csv", count |-> 0, error |-> ""]

\* ---------------------------------------------- notifier: pure functions
EnvNames == {"TG_BOT_TOKEN", "TG_CHAT_ID", "PUSHBULLET_API_KEY"}

\* Optional[str]: None, or a string.
NoneStr == [none |-> TRUE, s |-> <<>>]
Str(v)  == [none |-> FALSE, s |-> v]

EnvChars  == {"k", " "}
EnvValues == {NoneStr} \cup {Str(v) : v \in SeqsUpTo(EnvChars, MaxEnvLen)}
Envs      == [EnvNames -> EnvValues]

\* Python truth of an Optional[str]
truthy(v) == ~v.none /\ v.s # <<>>

\* Mutant of get_env: return value if value else None, blank values kept.
get_env_NoStrip(e, name) ==
    LET value == e[name] IN
    IF truthy(value) THEN value ELSE NoneStr

\* value = os.environ.get(name)
\* return value.strip() if value and value.strip() else None
get_env(e, name) ==
    LET value == e[name] IN
    IF truthy(value) /\ strip(value.s) # <<>> THEN Str(strip(value.s)) ELSE NoneStr

\* What requests.post does: it raises, or it returns a response whose status
\* is read and whose text is read when the status is not 200 (text may raise).
PostOutcomes ==
    {[kind |-> "raise", status |-> 0,       textOk |-> TRUE],
     [kind |-> "resp",  status |-> HTTP_OK, textOk |-> TRUE],
     [kind |-> "resp",  status |-> 401,     textOk |-> TRUE],
     [kind |-> "resp",  status |-> 500,     textOk |-> FALSE]}

\* The statements of a channel function's try block from requests.post on:
\* [raised, exc, ret].
post_and_check(o) ==
    IF o.kind = "raise" THEN [raised |-> TRUE, exc |-> "RequestException", ret |-> FALSE]
    ELSE IF o.status = HTTP_OK THEN [raised |-> FALSE, exc |-> "", ret |-> TRUE]
    ELSE IF ~o.textOk THEN [raised |-> TRUE, exc |-> "Exception", ret |-> FALSE]
    ELSE [raised |-> FALSE, exc |-> "", ret |-> FALSE]

\* Mutant of except_Exception: except requests.RequestException, so that any
\* other exception leaves the function.
except_RequestException(r) ==
    IF r.raised
    THEN [escaped |-> r.exc # "RequestException", ret |-> FALSE]
    ELSE [escaped |-> FALSE, ret |-> r.ret]

\* except Exception as e: print(...); return False
except_Exception(r) ==
    IF r.raised THEN [escaped |-> FALSE, ret |-> FALSE]
    ELSE [escaped |-> FALSE, ret |-> r.ret]

\* if not bot_token or not chat_id: ... return False
telegram_skips(e) ==
    ~truthy(get_env(e, "TG_BOT_TOKEN")) \/ ~truthy(get_env(e, "TG_CHAT_ID"))

\* if not api_key: ... return False
pushbullet_skips(e) == ~truthy(get_env(e, "PUSHBULLET_API_KEY"))

\* Mutant of exit_status: 0 only when both channels succeeded.
exit_status_BothRequired(tg, pb) == IF tg /\ pb THEN 0 ELSE 1

\* main: the exit code from the two results
exit_status(tg, pb) ==
    IF tg /\ pb THEN 0
    ELSE IF tg \/ pb THEN 0
    ELSE 1

\* ------------------------------------------------------------------ state
VARIABLES
    prog,       \* which script this run is: "prober" or "notifier"
    file,       \* prober: the characters of the list file
    readable,   \* prober: whether open(list_path) succeeds
    ppc,        \* prober: position in the script
    f,          \* prober: the open file f, its lines not yet read
    url,        \* prober: the loop variable url
    working,    \* prober: the list working
    stdout,     \* prober: the lines printed so far
    inflight,   \* prober: requests issued and not yet returned
    fetched,    \* prober: the requests issued so far, [url, done, outcome]
    env,                \* notifier: os.environ
    npc,                \* notifier: position in main
    telegram_success,   \* notifier: main's telegram_success
    pushbullet_success, \* notifier: main's pushbullet_success
    trace,              \* notifier: calls, POSTs and returns so far
    exit_code           \* notifier: the process exit code, -1 while running

pvars == <<file, readable, ppc, f, url, working, stdout, inflight, fetched>>
nvars == <<env, npc, telegram_success, pushbullet_success, trace, exit_code>>
vars == <<prog, pvars, nvars>>

NoOutcome == [kind |-> "none", status |-> 0, body |-> GoodBody, err |-> ""]

NoEnv == [n \in EnvNames |-> NoneStr]

InitProber ==
    /\ prog = "prober"
    /\ file = <<>>
    /\ readable = TRUE
    /\ env = NoEnv
    /\ npc = "start"
    /\ telegram_success = FALSE
    /\ pushbullet_success = FALSE
    /\ trace = <<>>
    /\ exit_code = -1
    /\ ppc = "open"
    /\ f = <<>>
    /\ url = <<>>
    /\ working = <<>>
    /\ stdout = <<>>
    /\ inflight = 0
    /\ fetched = <<>>

InitNotifier ==
    /\ prog = "notifier"
    /\ env = NoEnv
    /\ npc = "start"
    /\ telegram_success = FALSE
    /\ pushbullet_success = FALSE
    /\ trace = <<>>
    /\ exit_code = -1
    /\ file = <<>>
    /\ readable = TRUE
    /\ ppc = "open"
    /\ f = <<>>
    /\ url = <<>>
    /\ working = <<>>
    /\ stdout = <<>>
    /\ inflight = 0
    /\ fetched = <<>>

Init == InitProber \/ InitNotifier

\* with open(list_path, 'r') as f: the file opens, with some contents, or
\* open raises and the script ends in an uncaught fault
Open ==
    /\ prog = "prober" /\ ppc = "open"
    /\ \E text \in Files, r \in BOOLEAN :
        /\ readable' = r
        /\ file' = IF r THEN text ELSE <<>>
        /\ f' = IF r THEN readlines(text) ELSE <<>>
        /\ ppc' = IF r THEN "loop" ELSE "fault"
    /\ UNCHANGED nvars
    /\ UNCHANGED <<prog, url, working, stdout, inflight, fetched>>

\* Mutant of ReadLine: the emptiness test is made on line.strip(), before the
\* trailing slashes are stripped.
ReadLine_BlankTestBeforeSlashStrip ==
    /\ prog = "prober" /\ ppc = "loop"
    /\ f # <<>>
    /\ f' = Tail(f)
    /\ url' = normalize(Head(f))
    /\ ppc' = IF strip(Head(f)) = <<>> THEN "loop" ELSE "request"
    /\ UNCHANGED nvars
    /\ UNCHANGED <<prog, file, readable, working, stdout, inflight, fetched>>

\* for line in f: url = line.strip().rstrip('/'); if not url: continue
ReadLine ==
    /\ prog = "prober" /\ ppc = "loop"
    /\ f # <<>>
    /\ f' = Tail(f)
    /\ url' = normalize(Head(f))
    /\ ppc' = IF normalize(Head(f)) = <<>> THEN "loop" ELSE "request"
    /\ UNCHANGED nvars
    /\ UNCHANGED <<prog, file, readable, working, stdout, inflight, fetched>>

\* data = fetch_json(u, timeout=8): the request goes out
Request ==
    /\ prog = "prober" /\ ppc = "request"
    /\ inflight' = inflight + 1
    /\ fetched' = Append(fetched, [url |-> url, done |-> FALSE, outcome |-> NoOutcome])
    /\ ppc' = "wait"
    /\ UNCHANGED nvars
    /\ UNCHANGED <<prog, file, readable, f, url, working, stdout>>

\* Mutant of Respond: a fetch that raises is retried once before its record
\* is printed.
Respond_RetryOnce ==
    /\ prog = "prober" /\ ppc = "wait"
    /\ \E o \in Outcomes :
        /\ fetched' = [fetched EXCEPT ![Len(fetched)] =
                          [url |-> url, done |-> TRUE, outcome |-> o]]
        /\ IF o.kind = "raise" /\ (Len(fetched) = 1 \/ fetched[Len(fetched) - 1].outcome.kind # "raise")
           THEN /\ ppc' = "request"
                /\ UNCHANGED <<stdout, working>>
           ELSE /\ stdout' = Append(stdout, recordOf(url, o))
                /\ working' = appended(working, recordOf(url, o))
                /\ ppc' = "loop"
    /\ inflight' = inflight - 1
    /\ UNCHANGED nvars
    /\ UNCHANGED <<prog, file, readable, f, url>>

\* the request returns or raises; the record is printed; working grows
Respond ==
    /\ prog = "prober" /\ ppc = "wait"
    /\ \E o \in Outcomes :
        /\ fetched' = [fetched EXCEPT ![Len(fetched)] =
                          [url |-> url, done |-> TRUE, outcome |-> o]]
        /\ stdout' = Append(stdout, recordOf(url, o))
        /\ working' = appended(working, recordOf(url, o))
    /\ inflight' = inflight - 1
    /\ ppc' = "loop"
    /\ UNCHANGED nvars
    /\ UNCHANGED <<prog, file, readable, f, url>>

\* the loop ends
EndOfFile ==
    /\ prog = "prober" /\ ppc = "loop"
    /\ f = <<>>
    /\ ppc' = "csv"
    /\ UNCHANGED nvars
    /\ UNCHANGED <<prog, file, readable, f, url, working, stdout, inflight, fetched>>

\* Mutant of PrintCsv: if working: print(csv)
PrintCsv_OnlyIfAny ==
    /\ prog = "prober" /\ ppc = "csv"
    /\ stdout' = IF working = <<>> THEN stdout ELSE Append(stdout, CsvLine(join(working)))
    /\ ppc' = "done"
    /\ UNCHANGED nvars
    /\ UNCHANGED <<prog, file, readable, f, url, working, inflight, fetched>>

\* csv = ','.join(working); print(csv)
PrintCsv ==
    /\ prog = "prober" /\ ppc = "csv"
    /\ stdout' = Append(stdout, CsvLine(join(working)))
    /\ ppc' = "done"
    /\ UNCHANGED nvars
    /\ UNCHANGED <<prog, file, readable, f, url, working, inflight, fetched>>

\* ------------------------------------------------------ notifier: actions
NoPost == [kind |-> "none", status |-> 0, textOk |-> TRUE]

\* A trace entry: a call, a return (with the value returned), a POST (with
\* what requests.post did) or an exception leaving a channel function.
Ev(what, ret_, o_) == [ev |-> what, ret |-> ret_, o |-> o_]

\* The process starts in some environment.  main: print("Sending
\* notifications..."); the Telegram call is entered
MainStart ==
    /\ prog = "notifier" /\ npc = "start"
    /\ env' \in Envs
    /\ trace' = Append(trace, Ev("tg_call", FALSE, NoPost))
    /\ npc' = "tg_env"
    /\ UNCHANGED <<prog, pvars, telegram_success, pushbullet_success, exit_code>>

\* send_telegram_notification: the credentials are read; skip or go on
TelegramEnv ==
    /\ prog = "notifier" /\ npc = "tg_env"
    /\ IF telegram_skips(env)
       THEN /\ telegram_success' = FALSE
            /\ trace' = Append(trace, Ev("tg_return", FALSE, NoPost))
            /\ npc' = "tg_done"
       ELSE /\ npc' = "tg_post"
            /\ UNCHANGED <<telegram_success, trace>>
    /\ UNCHANGED <<prog, pvars, env, pushbullet_success, exit_code>>

\* send_telegram_notification: requests.post and what follows it
TelegramPost ==
    /\ prog = "notifier" /\ npc = "tg_post"
    /\ \E o \in PostOutcomes :
        LET r == except_Exception(post_and_check(o)) IN
        IF r.escaped
        THEN /\ trace' = trace \o <<Ev("tg_post", FALSE, o), Ev("tg_raise", FALSE, NoPost)>>
             /\ npc' = "crash"
             /\ exit_code' = 1
             /\ UNCHANGED telegram_success
        ELSE /\ trace' = trace \o <<Ev("tg_post", FALSE, o), Ev("tg_return", r.ret, NoPost)>>
             /\ telegram_success' = r.ret
             /\ npc' = "tg_done"
             /\ UNCHANGED exit_code
    /\ UNCHANGED <<prog, pvars, env, pushbullet_success>>

\* Mutant of PushbulletCall: Pushbullet is a fallback, called only when
\* Telegram failed.
PushbulletCall_OnlyIfTelegramFailed ==
    /\ prog = "notifier" /\ npc = "tg_done"
    /\ IF telegram_success
       THEN /\ npc' = "decide"
            /\ UNCHANGED trace
       ELSE /\ trace' = Append(trace, Ev("pb_call", FALSE, NoPost))
            /\ npc' = "pb_env"
    /\ UNCHANGED <<prog, pvars, env, telegram_success, pushbullet_success, exit_code>>

\* main: the Pushbullet call is entered
PushbulletCall ==
    /\ prog = "notifier" /\ npc = "tg_done"
    /\ trace' = Append(trace, Ev("pb_call", FALSE, NoPost))
    /\ npc' = "pb_env"
    /\ UNCHANGED <<prog, pvars, env, telegram_success, pushbullet_success, exit_code>>

\* send_pushbullet_notification: the API key is read; skip or go on
PushbulletEnv ==
    /\ prog = "notifier" /\ npc = "pb_env"
    /\ IF pushbullet_skips(env)
       THEN /\ pushbullet_success' = FALSE
            /\ trace' = Append(trace, Ev("pb_return", FALSE, NoPost))
            /\ npc' = "decide"
       ELSE /\ npc' = "pb_post"
            /\ UNCHANGED <<pushbullet_success, trace>>
    /\ UNCHANGED <<prog, pvars, env, telegram_success, exit_code>>

\* send_pushbullet_notification: requests.post and what follows it
PushbulletPost ==
    /\ prog = "notifier" /\ npc = "pb_post"
    /\ \E o \in PostOutcomes :
        LET r == except_Exception(post_and_check(o)) IN
        IF r.escaped
        THEN /\ trace' = trace \o <<Ev("pb_post", FALSE, o), Ev("pb_raise", FALSE, NoPost)>>
             /\ npc' = "crash"
             /\ exit_code' = 1
             /\ UNCHANGED pushbullet_success
        ELSE /\ trace' = trace \o <<Ev("pb_post", FALSE, o), Ev("pb_return", r.ret, NoPost)>>
             /\ pushbullet_success' = r.ret
             /\ npc' = "decide"
             /\ UNCHANGED exit_code
    /\ UNCHANGED <<prog, pvars, env, telegram_success>>

\* main: the if/elif/else over the two results; sys.exit(main())
Decide ==
    /\ prog = "notifier" /\ npc = "decide"
    /\ exit_code' = exit_status(telegram_success, pushbullet_success)
    /\ npc' = "exit"
    /\ UNCHANGED <<prog, pvars, env, telegram_success, pushbullet_success, trace>>

ProberNext == Open \/ ReadLine \/ Request \/ Respond \/ EndOfFile \/ PrintCsv

NotifierNext ==
    \/ MainStart \/ TelegramEnv \/ TelegramPost
    \/ PushbulletCall \/ PushbulletEnv \/ PushbulletPost \/ Decide

Next == ProberNext \/ NotifierNext

Spec == Init /\ [][Next]_vars

\* Both scripts are single-threaded and every network call has a timeout, so
\* a run that can take a step takes it.
FairSpec == Spec /\ WF_vars(Next)

\* ================================================================ prober
\* What the properties below read off a run.
Lines == readlines(file)

IsRecord(r) == r.type = "record"
IsCsv(r) == r.type = "csv"
NonEmpty(u) == u # <<>>
IsOkRecord(r) == r.type = "record" /\ r.ok

Records == SelectSeq(stdout, IsRecord)
RecordUrls == [i \in 1..Len(Records) |-> Records[i].url]

\* A line is blank when every character of it is whitespace.
Blank(line) == \A i \in 1..Len(line) : line[i] \in Whitespace
OnlySlashes(line) ==
    /\ ~Blank(line)
    /\ \A i \in 1..Len(line) : line[i] \in Whitespace \cup {"/"}
    /\ normalize(line) = <<>>

NotBlank(line) == ~Blank(line)

\* The non-blank lines, each trimmed and with its trailing slashes stripped.
NonBlankLineUrls ==
    LET nb == SelectSeq(Lines, NotBlank)
    IN [i \in 1..Len(nb) |-> normalize(nb[i])]

\* The lines that still hold a URL once trimmed and stripped of trailing slashes.
UrlLines ==
    SelectSeq([i \in 1..Len(Lines) |-> normalize(Lines[i])], NonEmpty)

LoopEnded == prog = "prober" /\ ppc \in {"csv", "done"}

\* C1 as stated: after the loop, the records' url fields are the non-blank
\* lines (trimmed, trailing slash stripped), one record per non-blank line,
\* a line of slashes included.
C1_RecordPerNonBlankLine == LoopEnded => RecordUrls = NonBlankLineUrls

\* C1 amended: after the loop, the records' url fields are, in file order, the
\* lines whose trimmed and slash-stripped form is not empty, one record each,
\* whatever each fetch returned or raised; a line of only slashes (and
\* whitespace) gets no record.
C1_RecordPerUrlLine == LoopEnded => RecordUrls = UrlLines

\* C1 witness: a finished loop over a file with a slash-only line and two URL
\* lines, one of which raised a TypeError on a non-list "results".
C1_Witness ==
    /\ LoopEnded
    /\ \E i \in 1..Len(Lines) : OnlySlashes(Lines[i])
    /\ Len(Records) = 2
    /\ \E i \in 1..Len(Records) : Records[i].error = "TypeError"

\* The response of request i is a 200 whose body is a JSON object with a list
\* under "results".
GoodResponse(o) ==
    /\ o.kind = "resp"
    /\ o.status = 200
    /\ o.body.t = "object"
    /\ o.body.res.t = "list"

Answered == {i \in 1..Len(fetched) : fetched[i].done}

\* C2: the record of every answered request is ok: true exactly when the
\* response was a 200 with a JSON-object body holding a list-typed "results";
\* every other outcome gives ok: false.
C2_OkIffGoodResponse ==
    /\ Len(Records) = Cardinality(Answered)
    /\ \A i \in Answered : Records[i].ok <=> GoodResponse(fetched[i].outcome)

\* C2 witness: an ok record, and a not-ok record for a 200 JSON object whose
\* "results" is a string.
C2_Witness ==
    /\ \E i \in Answered : Records[i].ok
    /\ \E i \in Answered :
          /\ ~Records[i].ok
          /\ fetched[i].outcome.status = 200
          /\ fetched[i].outcome.body.res.t = "str"

OkRecords == SelectSeq(stdout, IsOkRecord)
OkUrlsWithSlash == [i \in 1..Len(OkRecords) |-> OkRecords[i].url \o <<"/">>]

OneTrailingSlash(w) ==
    /\ Len(w) >= 2
    /\ w[Len(w)] = "/"
    /\ w[Len(w) - 1] # "/"

\* text.split(','), for a text that is not empty
RECURSIVE split(_)
split(text) ==
    LET cs == {i \in 1..Len(text) : text[i] = ","}
    IN IF cs = {} THEN <<text>>
       ELSE LET k == CHOOSE i \in cs : \A j \in cs : i <= j
            IN <<SubSeq(text, 1, k - 1)>> \o split(SubSeq(text, k + 1, Len(text)))

Entries(text) == IF text = <<>> THEN <<>> ELSE split(text)

Raised(i) == fetched[i].outcome.kind = "raise"

\* C8: a fetch that raises gives a record with ok: false and the error text in
\* place of a count, adds nothing to working, and the loop goes on: every
\* record is the one its own URL and outcome give, whatever came before it,
\* working holds the ok records' URLs only, and after the loop every URL line
\* has been fetched.
C8_RaiseIsolated ==
    /\ \A i \in Answered :
          /\ Raised(i) =>
                /\ Records[i].ok = FALSE
                /\ Records[i].key = "error"
                /\ Records[i].error = fetched[i].outcome.err
          /\ ~Raised(i) /\ ~(fetched[i].outcome.status = 200 /\ fetched[i].outcome.body.res.t = "null")
                => /\ Records[i].key = "count"
                   /\ Records[i].ok = GoodResponse(fetched[i].outcome)
          /\ Records[i].url = fetched[i].url
    /\ working = OkUrlsWithSlash
    /\ Len(OkRecords) = Cardinality({i \in Answered : GoodResponse(fetched[i].outcome)})
    /\ LoopEnded => Len(fetched) = Len(UrlLines) /\ Answered = 1..Len(fetched)

\* C8 witness: a finished loop where the first fetch raised and a later URL
\* was classified ok.
C8_Witness ==
    /\ LoopEnded
    /\ Len(fetched) >= 2
    /\ Raised(1)
    /\ Records[2].ok

CsvLines == SelectSeq(stdout, IsCsv)

CsvOnceAndLast ==
    /\ Len(CsvLines) = 1
    /\ IsCsv(stdout[Len(stdout)])
    /\ stdout[Len(stdout)].url = join(working)

ProberFinished == prog = "prober" /\ ppc = "done" /\ CsvOnceAndLast

\* C10: a prober run whose file opens reaches the end of the script, where the
\* trailing line has been printed exactly once and is the last line printed
\* (also when working is empty and when the file is empty); the trailing line
\* is never printed earlier or twice.
C10_TerminatesWithTrailingLine ==
    /\ [](Len(CsvLines) <= 1 /\ (Len(CsvLines) = 1 => ppc = "done" /\ CsvOnceAndLast))
    /\ ((prog = "prober" /\ ppc = "loop") ~> ProberFinished)

\* C10 witness: a finished run with records and no URL that succeeded, the
\* trailing line empty.
C10_Witness ==
    /\ ProberFinished
    /\ Len(Records) >= 1
    /\ working = <<>>
    /\ stdout[Len(stdout)].url = <<>>

\* ============================================================== notifier
Events(what) == {i \in 1..Len(trace) : trace[i].ev = what}
Count(what) == Cardinality(Events(what))

\* A POST that came back with HTTP 200.
Reported200(i) ==
    /\ trace[i].ev \in {"tg_post", "pb_post"}
    /\ trace[i].o.kind = "resp"
    /\ trace[i].o.status = 200

\* A POST during which, or after which, an exception was raised: by
\* requests.post itself, or by reading the text of a non-200 response.
PostRaised(i) ==
    /\ trace[i].ev \in {"tg_post", "pb_post"}
    /\ \/ trace[i].o.kind = "raise"
       \/ trace[i].o.kind = "resp" /\ trace[i].o.status # 200 /\ ~trace[i].o.textOk

Exited == prog = "notifier" /\ npc = "exit"

\* C4: main returns 0 when at least one channel's POST came back with HTTP
\* 200 and 1 otherwise (each channel skipped, answered non-200, or raised).
C4_ExitCode ==
    Exited =>
        /\ exit_code \in {0, 1}
        /\ exit_code = 0 <=> \E i \in 1..Len(trace) : Reported200(i)

\* C4 witness: exit code 0 with Telegram skipped and Pushbullet at 200.
C4_Witness ==
    /\ Exited
    /\ exit_code = 0
    /\ Count("tg_post") = 0
    /\ \E i \in Events("pb_post") : Reported200(i)

\* An environment variable that is unset, or set to nothing but whitespace.
AbsentOrBlank(v) == v.none \/ \A i \in 1..Len(v.s) : v.s[i] = " "

TokenMissingOnly ==
    /\ prog = "notifier" /\ npc # "start"
    /\ AbsentOrBlank(env["TG_BOT_TOKEN"])
    /\ ~AbsentOrBlank(env["TG_CHAT_ID"])
    /\ ~AbsentOrBlank(env["PUSHBULLET_API_KEY"])

\* C5: with TG_BOT_TOKEN absent or blank and the other two variables set,
\* Telegram never POSTs and never raises, it returns False, and once main has
\* ended Pushbullet has been called and has issued its POST.
C5_TelegramSkippedPushbulletPosts ==
    TokenMissingOnly =>
        /\ Count("tg_post") = 0
        /\ Count("tg_raise") = 0
        /\ npc # "crash"
        /\ \A i \in Events("tg_return") : trace[i].ret = FALSE
        /\ npc \notin {"tg_env", "tg_post"} => Count("tg_return") = 1 /\ telegram_success = FALSE
        /\ npc \in {"decide", "exit"} => Count("pb_call") = 1 /\ Count("pb_post") = 1

\* C5 witness: the run has ended with a blank (set, whitespace-only) token,
\* Telegram skipped and Pushbullet's POST answered 200.
C5_Witness ==
    /\ TokenMissingOnly
    /\ ~env["TG_BOT_TOKEN"].none /\ env["TG_BOT_TOKEN"].s # <<>>
    /\ Exited
    /\ Count("tg_post") = 0
    /\ \E i \in Events("pb_post") : Reported200(i)

Before(a, b) == \A i \in Events(a), j \in Events(b) : i < j

\* C6: each channel is called at most once and POSTs at most once; the
\* Pushbullet call starts only after the Telegram call has returned; and when
\* main has ended both calls have been made, whatever Telegram returned.
C6_BothOnceInOrder ==
    /\ Count("tg_call") <= 1 /\ Count("pb_call") <= 1
    /\ Count("tg_post") <= 1 /\ Count("pb_post") <= 1
    /\ Count("tg_return") <= 1 /\ Count("pb_return") <= 1
    /\ Before("tg_call", "tg_return") /\ Before("tg_post", "tg_return")
    /\ Before("tg_return", "pb_call")
    /\ Before("pb_call", "pb_post") /\ Before("pb_post", "pb_return")
    /\ Count("pb_call") = 1 => Count("tg_return") = 1
    /\ Exited =>
          /\ Count("tg_call") = 1 /\ Count("tg_return") = 1
          /\ Count("pb_call") = 1 /\ Count("pb_return") = 1

\* C6 witness: the run has ended, Telegram succeeded and Pushbullet still
\* issued its POST.
C6_Witness ==
    /\ Exited
    /\ telegram_success
    /\ Count("tg_post") = 1
    /\ Count("pb_post") = 1

\* C7: an exception raised during a channel's attempt never leaves the
\* channel's function: the function returns False, main is never left by an
\* exception, and a run that has stopped has stopped after main's exit-code
\* decision.
C7_ExceptionsCaught ==
    /\ npc # "crash"
    /\ Count("tg_raise") = 0 /\ Count("pb_raise") = 0
    /\ \A i \in 1..Len(trace) :
          PostRaised(i) =>
              /\ i < Len(trace)
              /\ trace[i + 1].ev = (IF trace[i].ev = "tg_post" THEN "tg_return" ELSE "pb_return")
              /\ trace[i + 1].ret = FALSE
    /\ (prog = "notifier" /\ ~ENABLED Next) => npc = "exit" /\ exit_code \in {0, 1}

\* C7 witness: both channels raised (requests.post for Telegram, reading the
\* response text for Pushbullet) and main returned 1.
C7_Witness ==
    /\ Exited
    /\ exit_code = 1
    /\ \E i \in Events("tg_post") : trace[i].o.kind = "raise"
    /\ \E i \in Events("pb_post") : trace[i].o.kind = "resp" /\ ~trace[i].o.textOk

====
